---- MODULE Spec2Model ----
(***************************************************************************)
(* Model of the segmentation / reconciliation / translation pipeline of    *)
(* danleeaj/subs:                                                          *)
(*   utils/preprocess_audio.py      chunk_audio, preprocess_audio          *)
(*   utils/process_trancsription.py create_transcription,                  *)
(*                                  process_transcription                  *)
(*   models.py                      Timestamp, SubtitleEntry, Transcription *)
(*   transcribe.py                  transcribe_video                       *)
(*   gui.py                         TranscriptionGUI                       *)
(*                                                                         *)
(* Strings that the code inspects character by character (file names, SRT  *)
(* text, the argument of Timestamp) are sequences of character codes.  In  *)
(* the reconciliation and translation models a timestamp string            *)
(* HH:MM:SS,mmm is the tuple <<HH, MM, SS, mmm>> of its decimal fields.    *)
(***************************************************************************)
EXTENDS Integers, Sequences, FiniteSets, TLC

VARIABLES
    \* ---- utils/process_trancsription.py ----
    chunk_dir,               \* names of the files in TEMP_DIR_AUDIO_CHUNKS
    whisper,                 \* the Whisper service: chunk name -> SRT it returns
    whisper_dir,             \* TEMP_DIR_WHISPER_OUTPUT: set of [name, content]
    srt_files,               \* process_transcription: sorted(glob("*.srt"))
    combined_transcription,  \* process_transcription: the running Transcription
    rec_pos,                 \* number of srt_files already consumed by the loop
    rec_pc,                  \* "transcribing" | "merging" | "done" | "idle"
    \* ---- utils/preprocess_audio.py: chunk_audio ----
    audio_len,               \* len(audio), milliseconds
    silence_midpoints,       \* list of candidate cut points, ascending
    target_chunk_duration_ms,
    flexibility_ms,
    start,                   \* chunk_audio: start of the next chunk
    chunks,                  \* chunk_audio: list of (start, audio[lo:hi])
    chunk_pc,                \* "loop" | "done" | "idle"
    \* ---- models.py: Transcription.translate_subtitles ----
    subtitles,               \* self.subtitles
    batch_size,
    overlap,
    i,                       \* loop variable of range(0, len, batch_size)
    requests,                \* requests handed to client.responses.parse
    warnings,                \* ids printed by the missing-translation warning
    translation_output,      \* <<output_parsed>> between the call and the update, else <<>>
    tr_pc,                   \* "loop" | "update" | "done" | "raised" | "idle"
    \* ---- utils/preprocess_audio.py: preprocess_audio ----
    pre_pc,                  \* "start" | "chunking" | "done" | "idle"
    out_dir,                 \* output_directory: set of [name, audio] exported
    \* ---- transcribe.py: transcribe_video ----
    drv_pc,                  \* the stage about to run, "returned", "raised" or "idle"
    fs,                      \* paths that exist under temp/<job uuid>, the directory included
    out_files,               \* final subtitle files written next to the input
    stages_run,              \* stages entered so far, in order
    drv_failed,              \* the stage whose call raised, or None
    drv_chunks,              \* number of chunk files preprocess_audio writes
    drv_done,                \* chunks create_transcription has transcribed
    drv_windows,             \* number of translation windows of the transcript
    drv_win,                 \* translation windows completed
    \* ---- models.py: Timestamp(time) and str() ----
    ts_time,                 \* the string handed to Timestamp(time)
    ts_ms,                   \* Timestamp.milliseconds, or "ValueError"
    ts_text,                 \* str() of the parsed Timestamp
    ts_pc,                   \* "start" | "parsed" | "raised" | "formatted" | "idle"
    \* ---- models.py: to_srt / from_srt on SRT text ----
    srt_subtitles,           \* the entries of the Transcription that is rendered
    srt_blocks,              \* to_srt_block of every entry, per rendering
    rendered,                \* its three renderings, or <<>> before to_srt
    srt_text,                \* the srt_content handed to from_srt
    srt_input,               \* where srt_text comes from: "original" | "bilingual" | "damaged"
    parsed,                  \* the subtitles from_srt returned
    srt_pc,                  \* "start" | "rendered" | "parsed" | "idle"
    \* ---- gui.py: TranscriptionGUI ----
    files,                   \* self.files (self.file_listbox shows the same list)
    is_processing,           \* self.is_processing
    ui_state,                \* state of the browse, remove, start and clear buttons
    message_queue,           \* self.message_queue: kinds of the messages, oldest first
    thread_pc,               \* worker thread: "none" | "started" | "iterating" | "finished"
    file_iter,               \* files the loop of _run_transcription has taken
    total_files,             \* total_files of _run_transcription
    threads,                 \* worker threads that have not returned
    files_at_start,          \* self.files when the run was started
    processed                \* the files transcribe_video was called for in this run

recVars   == <<chunk_dir, whisper, whisper_dir, srt_files,
               combined_transcription, rec_pos, rec_pc>>
chunkVars == <<audio_len, silence_midpoints, target_chunk_duration_ms,
               flexibility_ms, start, chunks, chunk_pc>>
trVars    == <<subtitles, batch_size, overlap, i, requests, translation_output,
               warnings, tr_pc>>
preVars   == <<pre_pc, out_dir>>
drvVars   == <<drv_pc, fs, out_files, stages_run, drv_failed, drv_chunks,
               drv_done, drv_windows, drv_win>>
tsVars    == <<ts_time, ts_ms, ts_text, ts_pc>>
srtVars   == <<srt_subtitles, srt_blocks, rendered, srt_text, srt_input, parsed,
               srt_pc>>
guiVars   == <<files, is_processing, ui_state, message_queue, thread_pc,
               file_iter, total_files, threads, files_at_start, processed>>
vars      == <<recVars, chunkVars, trVars, preVars, drvVars, tsVars, srtVars,
               guiVars>>

None == "None"

(***************************************************************************)
(* Bounds                                                                  *)
(***************************************************************************)
MaxSeg        == 3     \* segments reconciled in SpecRec
MaxSegEntries == 2     \* entries in one per-segment SRT
MaxChunks     == 11    \* chunk files in SpecOrder (more than 10)
MaxAudioLen   == 14    \* len(audio) in SpecChunk
MaxSilences   == 3     \* detected silences in SpecChunk
MaxEntries    == 5     \* entries of the transcript in SpecTranslate
MaxBatch      == 3     \* batch_size in SpecTranslate
MaxOverlap    == 2     \* overlap in SpecTranslate
MaxResp       == 2     \* pairs in one translation response
MaxDrvChunks  == 3     \* chunk files of one job in SpecDriver
MaxDrvWindows == 3     \* translation windows of one job in SpecDriver
MaxSrtEntries == 2     \* entries of the transcript in SpecSrt
MaxDropped    == 2     \* paths one drop or one file dialog delivers in SpecGui

(***************************************************************************)
(* Generic helpers                                                         *)
(***************************************************************************)
Min(a, b) == IF a <= b THEN a ELSE b
Max(a, b) == IF a >= b THEN a ELSE b
Abs(a)    == IF a >= 0 THEN a ELSE 0 - a

\* Python slice s[lo:hi] for 0 <= lo, on a 1-based TLA+ sequence.
Slice(s, lo, hi) ==
    LET h == Min(hi, Len(s))
    IN  IF lo >= h THEN <<>> ELSE SubSeq(s, lo + 1, h)

(***************************************************************************)
(* File names.  f"chunk_{i}_{start_ms}" and Path.stem / str.split / int.   *)
(***************************************************************************)
RECURSIVE Digits(_)
\* str(n) for n >= 0, as character codes ('0' = 48)
Digits(n) == IF n < 10 THEN <<48 + n>> ELSE Digits(n \div 10) \o <<48 + (n % 10)>>

RECURSIVE ParseInt(_)
\* int(s) for a string of decimal digits
ParseInt(s) ==
    IF Len(s) = 0 THEN 0
    ELSE 10 * ParseInt(SubSeq(s, 1, Len(s) - 1)) + (s[Len(s)] - 48)

wav_suffix == <<46, 119, 97, 118>>     \* ".wav"
srt_suffix == <<46, 115, 114, 116>>    \* ".srt"

\* chunk_file_path with the two numbers in the other order
chunk_file_path_swapped(idx, start_ms) ==
    <<99, 104, 117, 110, 107, 95>> \o Digits(start_ms) \o <<95>> \o Digits(idx)
        \o wav_suffix

\* preprocess_audio: f"chunk_{i}_{start_ms}.wav"
chunk_file_path(idx, start_ms) ==
    <<99, 104, 117, 110, 107, 95>> \o Digits(idx) \o <<95>> \o Digits(start_ms)
        \o wav_suffix

\* Path.stem: the name without its last suffix
stem(name) ==
    LET dots == {k \in 1..Len(name) : name[k] = 46}
        last == CHOOSE k \in dots : \A m \in dots : m <= k
    IN  IF dots = {} THEN name ELSE SubSeq(name, 1, last - 1)

\* s.split("_")[-1]
split_last(s) ==
    LET us   == {k \in 1..Len(s) : s[k] = 95}
        last == CHOOSE k \in us : \A m \in us : m <= k
    IN  IF us = {} THEN s ELSE SubSeq(s, last + 1, Len(s))

\* glob("*.srt")
is_srt(name) ==
    /\ Len(name) >= Len(srt_suffix)
    /\ SubSeq(name, Len(name) - Len(srt_suffix) + 1, Len(name)) = srt_suffix

RECURSIVE StrLess(_, _)
\* a < b for two strings, as Python compares them (by code point)
StrLess(a, b) ==
    IF Len(a) = 0 THEN Len(b) > 0
    ELSE IF Len(b) = 0 THEN FALSE
    ELSE IF a[1] # b[1] THEN a[1] < b[1]
    ELSE StrLess(Tail(a), Tail(b))

RECURSIVE sorted(_)
\* sorted(paths): ascending list of a set of distinct names
sorted(S) ==
    IF S = {} THEN <<>>
    ELSE LET m == CHOOSE x \in S : \A y \in S \ {x} : StrLess(x, y)
         IN  <<m>> \o sorted(S \ {m})

(***************************************************************************)
(* models.py: Timestamp                                                    *)
(***************************************************************************)
\* Timestamp._parse: fields of HH:MM:SS,mmm to milliseconds
Timestamp_parse(time) ==
    (time[1] * 3600 + time[2] * 60 + time[3]) * 1000 + time[4]

\* Timestamp.__str__: milliseconds to the fields of HH:MM:SS,mmm
Timestamp_str(milliseconds) ==
    <<milliseconds \div (1000 * 3600),
      (milliseconds \div (1000 * 60)) % 60,
      (milliseconds \div 1000) % 60,
      milliseconds % 1000>>

\* Timestamp.__add__ on the millisecond values
Timestamp_add(a_ms, b_ms) == a_ms + b_ms

(***************************************************************************)
(* models.py: SubtitleEntry, Transcription                                 *)
(***************************************************************************)
\* SubtitleEntry.offset
SubtitleEntry_offset(sub, offset_ms) ==
    [sub EXCEPT
        !.start_time = Timestamp_str(Timestamp_add(Timestamp_parse(sub.start_time), offset_ms)),
        !.end_time   = Timestamp_str(Timestamp_add(Timestamp_parse(sub.end_time), offset_ms))]

\* Transcription.from_srt on a well-formed SRT text, given as its blocks
from_srt(srt_content, end_time) ==
    LET subs == [k \in 1..Len(srt_content) |->
                    [index       |-> srt_content[k].index,
                     start_time  |-> srt_content[k].start_time,
                     end_time    |-> srt_content[k].end_time,
                     text        |-> srt_content[k].text,
                     translation |-> None]]
    IN  [subtitles |-> subs,
         end_time  |-> end_time,
         end_index |-> IF Len(subs) > 0 THEN subs[Len(subs)].index ELSE 0]

\* Transcription.offset: shifts the entries; end_time and end_index are untouched
Transcription_offset(t, offset_ms, offset_index) ==
    [t EXCEPT !.subtitles =
        [k \in 1..Len(t.subtitles) |->
            [SubtitleEntry_offset(t.subtitles[k], offset_ms)
                EXCEPT !.index = t.subtitles[k].index + offset_index]]]

(***************************************************************************)
(* utils/process_trancsription.py                                          *)
(***************************************************************************)
\* content of the file called name in TEMP_DIR_WHISPER_OUTPUT
read_file(name) == (CHOOSE f \in whisper_dir : f.name = name).content

\* create_transcription, one iteration of "for chunk in input_directory.iterdir()":
\* iterdir yields the chunks in an arbitrary order
CreateTranscription ==
    /\ rec_pc = "transcribing"
    /\ \E chunk \in chunk_dir :
        /\ \A f \in whisper_dir : f.name # stem(chunk) \o srt_suffix
        /\ whisper_dir' = whisper_dir \cup
              {[name |-> stem(chunk) \o srt_suffix, content |-> whisper[chunk]]}
    /\ UNCHANGED <<chunk_dir, whisper, srt_files, combined_transcription,
                   rec_pos, rec_pc>>
    /\ UNCHANGED <<chunkVars, trVars, preVars, drvVars, tsVars, srtVars, guiVars>>

\* process_transcription, lines 48-49
ProcessStart ==
    /\ rec_pc = "transcribing"
    /\ Cardinality(whisper_dir) = Cardinality(chunk_dir)
    /\ srt_files' = sorted({f.name : f \in {g \in whisper_dir : is_srt(g.name)}})
    /\ combined_transcription' = [subtitles |-> <<>>, end_time |-> 0, end_index |-> 0]
    /\ rec_pos' = 0
    /\ rec_pc' = "merging"
    /\ UNCHANGED <<chunk_dir, whisper, whisper_dir>>
    /\ UNCHANGED <<chunkVars, trVars, preVars, drvVars, tsVars, srtVars, guiVars>>

\* the body of "for srt_file in srt_files", lines 52-66
merge_file(combined, srt_file) ==
    LET end_time      == ParseInt(split_last(stem(srt_file)))
        transcription == from_srt(read_file(srt_file), end_time)
        shifted       == IF combined.subtitles # <<>>
                         THEN Transcription_offset(transcription,
                                                   combined.end_time,
                                                   combined.end_index)
                         ELSE transcription
    IN  [subtitles |-> combined.subtitles \o shifted.subtitles,
         end_time  |-> shifted.end_time,
         end_index |-> shifted.end_index]

ProcessFile ==
    /\ rec_pc = "merging"
    /\ rec_pos < Len(srt_files)
    /\ combined_transcription' =
          merge_file(combined_transcription, srt_files[rec_pos + 1])
    /\ rec_pos' = rec_pos + 1
    /\ UNCHANGED <<chunk_dir, whisper, whisper_dir, srt_files, rec_pc>>
    /\ UNCHANGED <<chunkVars, trVars, preVars, drvVars, tsVars, srtVars, guiVars>>

\* process_transcription, line 68
ProcessReturn ==
    /\ rec_pc = "merging"
    /\ rec_pos = Len(srt_files)
    /\ rec_pc' = "done"
    /\ UNCHANGED <<chunk_dir, whisper, whisper_dir, srt_files,
                   combined_transcription, rec_pos>>
    /\ UNCHANGED <<chunkVars, trVars, preVars, drvVars, tsVars, srtVars, guiVars>>

NextRec == CreateTranscription \/ ProcessStart \/ ProcessFile \/ ProcessReturn

(***************************************************************************)
(* Initial states                                                          *)
(***************************************************************************)
IdleRec ==
    /\ chunk_dir = {}
    /\ whisper = <<>>
    /\ whisper_dir = {}
    /\ srt_files = <<>>
    /\ combined_transcription = [subtitles |-> <<>>, end_time |-> 0, end_index |-> 0]
    /\ rec_pos = 0
    /\ rec_pc = "idle"

IdleChunk ==
    /\ audio_len = 0
    /\ silence_midpoints = <<>>
    /\ target_chunk_duration_ms = 0
    /\ flexibility_ms = 0
    /\ start = 0
    /\ chunks = <<>>
    /\ chunk_pc = "idle"

IdleTr ==
    /\ subtitles = <<>>
    /\ batch_size = 0
    /\ overlap = 0
    /\ i = 0
    /\ requests = <<>>
    /\ translation_output = <<>>
    /\ warnings = <<>>
    /\ tr_pc = "idle"

IdlePre ==
    /\ pre_pc = "idle"
    /\ out_dir = {}

IdleDrv ==
    /\ drv_pc = "idle"
    /\ fs = {}
    /\ out_files = {}
    /\ stages_run = <<>>
    /\ drv_failed = None
    /\ drv_chunks = 0
    /\ drv_done = 0
    /\ drv_windows = 0
    /\ drv_win = 0

IdleTs ==
    /\ ts_time = <<>>
    /\ ts_ms = 0
    /\ ts_text = <<>>
    /\ ts_pc = "idle"

IdleSrt ==
    /\ srt_subtitles = <<>>
    /\ srt_blocks = <<>>
    /\ srt_input = "none"
    /\ rendered = <<>>
    /\ srt_text = <<>>
    /\ parsed = <<>>
    /\ srt_pc = "idle"

IdleGui ==
    /\ files = <<>>
    /\ is_processing = FALSE
    /\ ui_state = "idle"
    /\ message_queue = <<>>
    /\ thread_pc = "none"
    /\ file_iter = 0
    /\ total_files = 0
    /\ threads = 0
    /\ files_at_start = <<>>
    /\ processed = <<>>

\* durations of the audio segments and start times of the entries Whisper
\* reports inside one segment, milliseconds
Durations   == {3500, 5000}
EntryStarts == {0, 1500, 4000}

RECURSIVE SumTo(_, _)
\* durs[1] + ... + durs[k]
SumTo(durs, k) == IF k = 0 THEN 0 ELSE SumTo(durs, k - 1) + durs[k]

\* The files preprocess_audio leaves in the chunk directory for segments of
\* the given durations: chunk_{i}_{start_ms}.wav with i from 0 when the audio
\* was split, chunk_1_0.wav when it was exported whole.
chunk_names(durs) ==
    [k \in 1..Len(durs) |->
        IF Len(durs) = 1 THEN chunk_file_path(1, 0)
        ELSE chunk_file_path(k - 1, SumTo(durs, k - 1))]

\* An SRT as Whisper returns it for one segment: blocks indexed from 1,
\* time-ordered, each 500 ms long and inside the segment
srt_of(starts) ==
    [k \in 1..Len(starts) |->
        [index      |-> k,
         start_time |-> Timestamp_str(starts[k]),
         end_time   |-> Timestamp_str(starts[k] + 500),
         text       |-> "t"]]

SegContents(dur) ==
    {srt_of(st) : st \in
        {s \in UNION {[1..m -> EntryStarts] : m \in 0..MaxSegEntries} :
            /\ \A k \in 1..Len(s) : s[k] + 500 <= dur
            /\ \A k \in 1..(Len(s) - 1) : s[k] < s[k + 1]}}

InitRec ==
    /\ \E n \in 1..MaxSeg : \E durs \in [1..n -> Durations] :
        /\ chunk_dir = {chunk_names(durs)[k] : k \in 1..n}
        /\ whisper \in
              {w \in [chunk_dir -> UNION {SegContents(d) : d \in Durations}] :
                  \A k \in 1..n : w[chunk_names(durs)[k]] \in SegContents(durs[k])}
    /\ whisper_dir = {}
    /\ srt_files = <<>>
    /\ combined_transcription = [subtitles |-> <<>>, end_time |-> 0, end_index |-> 0]
    /\ rec_pos = 0
    /\ rec_pc = "transcribing"
    /\ IdleChunk /\ IdleTr /\ IdlePre /\ IdleDrv /\ IdleTs /\ IdleSrt /\ IdleGui

\* up to MaxChunks segments of 5000 ms, one entry each
InitOrder ==
    /\ \E n \in 1..MaxChunks :
        LET durs == [k \in 1..n |-> 5000]
        IN  /\ chunk_dir = {chunk_names(durs)[k] : k \in 1..n}
            /\ whisper = [c \in chunk_dir |-> srt_of(<<1500>>)]
    /\ whisper_dir = {}
    /\ srt_files = <<>>
    /\ combined_transcription = [subtitles |-> <<>>, end_time |-> 0, end_index |-> 0]
    /\ rec_pos = 0
    /\ rec_pc = "transcribing"
    /\ IdleChunk /\ IdleTr /\ IdlePre /\ IdleDrv /\ IdleTs /\ IdleSrt /\ IdleGui

SpecRec   == InitRec /\ [][NextRec]_vars
SpecOrder == InitOrder /\ [][NextRec]_vars

(***************************************************************************)
(* Reconciliation: claims                                                  *)
(***************************************************************************)
\* the start offset a consumed file is tagged with
tag_of(k) == ParseInt(split_last(stem(srt_files[k])))

RECURSIVE Base(_)
\* number of entries of the files consumed before the k-th one
Base(k) == IF k <= 1 THEN 0 ELSE Base(k - 1) + Len(read_file(srt_files[k - 1]))

Merging == rec_pc \in {"merging", "done"}

\* C1: every entry of a consumed segment other than the first has its start
\* and end shifted by that segment's own start offset.
C1_ShiftedByOwnOffset ==
    Merging =>
        \A k \in 2..rec_pos : \A j \in 1..Len(read_file(srt_files[k])) :
            LET src == read_file(srt_files[k])[j]
                out == combined_transcription.subtitles[Base(k) + j]
            IN  /\ Timestamp_parse(out.start_time) =
                      Timestamp_parse(src.start_time) + tag_of(k)
                /\ Timestamp_parse(out.end_time) =
                      Timestamp_parse(src.end_time) + tag_of(k)

\* C2: when process_transcription returns, the entry indices are 1..M in
\* entry order.
C2_IndicesOneToM ==
    rec_pc = "done" =>
        \A p \in 1..Len(combined_transcription.subtitles) :
            combined_transcription.subtitles[p].index = p

\* C3: when process_transcription returns, the start times are non-decreasing
\* over the whole entry sequence.
C3_StartsNonDecreasing ==
    rec_pc = "done" =>
        \A p \in 1..Len(combined_transcription.subtitles) :
            \A q \in p..Len(combined_transcription.subtitles) :
                Timestamp_parse(combined_transcription.subtitles[p].start_time)
                    <= Timestamp_parse(combined_transcription.subtitles[q].start_time)

\* C4: consuming a segment with zero entries leaves the running last index
\* unchanged and sets the running end time to the segment's tag.
C4_SilentKeepsLastIndex ==
    [][(/\ rec_pc = "merging"
        /\ rec_pos' = rec_pos + 1
        /\ read_file(srt_files[rec_pos + 1]) = <<>>)
       => (/\ combined_transcription'.end_index = combined_transcription.end_index
           /\ combined_transcription'.end_time = tag_of(rec_pos + 1))]_vars

\* C5: the files are consumed in ascending order of their start offset
\* (equivalently, of their sequence index).
C5_ConsumedInSegmentOrder ==
    Merging =>
        \A a \in 1..rec_pos : \A b \in (a + 1)..rec_pos : tag_of(a) < tag_of(b)

(***************************************************************************)
(* utils/preprocess_audio.py: chunk_audio                                  *)
(***************************************************************************)
\* audio[lo:hi] as pydub slices it: both ends clamped to len(audio)
audio_slice(lo, hi) ==
    LET l == Min(lo, audio_len)
        h == Min(hi, audio_len)
    IN  [lo |-> l, hi |-> Max(l, h)]

\* candidates_in with the upper end of the window left unchecked
candidates_in_unbounded(mids, window_start, window_end) ==
    SelectSeq(mids, LAMBDA s : window_start <= s)

\* candidates_in with the lower end of the window left unchecked
candidates_in_no_lower(mids, window_start, window_end) ==
    SelectSeq(mids, LAMBDA s : s <= window_end)

\* line 51: the midpoints inside the flexibility window, in list order
candidates_in(mids, window_start, window_end) ==
    SelectSeq(mids, LAMBDA s : window_start <= s /\ s <= window_end)

\* min_by_distance taking the last element among those of least distance
min_by_distance_last(candidates, ideal_end) ==
    LET best == CHOOSE k \in 1..Len(candidates) :
                    /\ \A m \in 1..Len(candidates) :
                          Abs(candidates[k] - ideal_end) <= Abs(candidates[m] - ideal_end)
                    /\ \A m \in (k + 1)..Len(candidates) :
                          Abs(candidates[m] - ideal_end) > Abs(candidates[k] - ideal_end)
    IN  candidates[best]

\* line 54: min(candidates, key=lambda s: abs(s - ideal_end)), the first
\* element of the list among those of least distance
min_by_distance(candidates, ideal_end) ==
    LET best == CHOOSE k \in 1..Len(candidates) :
                    /\ \A m \in 1..Len(candidates) :
                          Abs(candidates[k] - ideal_end) <= Abs(candidates[m] - ideal_end)
                    /\ \A m \in 1..(k - 1) :
                          Abs(candidates[m] - ideal_end) > Abs(candidates[k] - ideal_end)
    IN  candidates[best]

\* lines 47-56
cut_point_of(ideal_end) ==
    LET candidates == candidates_in(silence_midpoints,
                                    ideal_end - flexibility_ms,
                                    ideal_end + flexibility_ms)
    IN  IF Len(candidates) > 0 THEN min_by_distance(candidates, ideal_end)
        ELSE ideal_end

\* lines 40-45: the remainder fits in one chunk
ChunkFinal ==
    /\ chunk_pc = "loop"
    /\ start < audio_len
    /\ start + target_chunk_duration_ms >= audio_len
    /\ chunks' = Append(chunks, [start_ms |-> start,
                                 audio    |-> audio_slice(start, audio_len)])
    /\ chunk_pc' = "done"
    /\ UNCHANGED <<audio_len, silence_midpoints, target_chunk_duration_ms,
                   flexibility_ms, start>>
    /\ UNCHANGED <<recVars, trVars, preVars, drvVars, tsVars, srtVars, guiVars>>

\* lines 40-59: cut near start + target_chunk_duration_ms
ChunkCut ==
    /\ chunk_pc = "loop"
    /\ start < audio_len
    /\ start + target_chunk_duration_ms < audio_len
    /\ LET cut_point == cut_point_of(start + target_chunk_duration_ms)
       IN  /\ chunks' = Append(chunks, [start_ms |-> start,
                                        audio    |-> audio_slice(start, cut_point)])
           /\ start' = cut_point
    /\ UNCHANGED <<audio_len, silence_midpoints, target_chunk_duration_ms,
                   flexibility_ms, chunk_pc>>
    /\ UNCHANGED <<recVars, trVars, preVars, drvVars, tsVars, srtVars, guiVars>>

\* lines 40, 61: the loop condition fails
ChunkReturn ==
    /\ chunk_pc = "loop"
    /\ start >= audio_len
    /\ chunk_pc' = "done"
    /\ UNCHANGED <<audio_len, silence_midpoints, target_chunk_duration_ms,
                   flexibility_ms, start, chunks>>
    /\ UNCHANGED <<recVars, trVars, preVars, drvVars, tsVars, srtVars, guiVars>>

NextChunk == ChunkFinal \/ ChunkCut \/ ChunkReturn

\* values of target_chunk_duration_ms the function is called with
TargetDurations == {3, 5, 10}

\* ascending list of the elements of a set of integers
RECURSIVE Ascending(_)
Ascending(S) ==
    IF S = {} THEN <<>>
    ELSE LET m == CHOOSE x \in S : \A y \in S : x <= y
         IN  <<m>> \o Ascending(S \ {m})

\* chunk_audio after lines 23-38, called without flexibility_ms: the
\* silences pydub detected lie inside the audio, so do their midpoints
InitChunk ==
    /\ target_chunk_duration_ms \in TargetDurations
    /\ flexibility_ms = target_chunk_duration_ms \div 5
    /\ audio_len \in 0..MaxAudioLen
    /\ silence_midpoints \in
          {Ascending(S) : S \in {X \in SUBSET (0..(audio_len - 1)) :
                                    Cardinality(X) <= MaxSilences}}
    /\ start = 0
    /\ chunks = <<>>
    /\ chunk_pc = "loop"
    /\ IdleRec /\ IdleTr /\ IdlePre /\ IdleDrv /\ IdleTs /\ IdleSrt /\ IdleGui

SpecChunk == InitChunk /\ [][NextChunk]_vars

\* C6: for audio longer than the target and the default flexibility, the
\* returned chunks start at 0, are contiguous, end at len(audio), are tagged
\* with their own start and are at most T + F long.
C6_ChunksPartitionAudio ==
    (/\ chunk_pc = "done"
     /\ audio_len > target_chunk_duration_ms
     /\ flexibility_ms = target_chunk_duration_ms \div 5)
    => /\ Len(chunks) >= 1
       /\ chunks[1].audio.lo = 0
       /\ chunks[Len(chunks)].audio.hi = audio_len
       /\ \A k \in 1..(Len(chunks) - 1) : chunks[k].audio.hi = chunks[k + 1].audio.lo
       /\ \A k \in 1..Len(chunks) :
            /\ chunks[k].start_ms = chunks[k].audio.lo
            /\ chunks[k].audio.lo < chunks[k].audio.hi
            /\ chunks[k].audio.hi - chunks[k].audio.lo
                  <= target_chunk_duration_ms + flexibility_ms

\* three chunks, the first cut at a silence after the ideal point, the
\* second cut at the ideal point
C6_Witness ==
    /\ chunk_pc = "done"
    /\ audio_len > target_chunk_duration_ms
    /\ flexibility_ms = 1
    /\ Len(chunks) = 3
    /\ chunks[1].audio.hi = target_chunk_duration_ms + flexibility_ms
    /\ chunks[2].audio.hi - chunks[2].audio.lo = target_chunk_duration_ms

\* C19: a non-final cut is the silence midpoint of the window
\* [ideal - F, ideal + F] nearest to ideal = start + T, the earliest one on
\* a tie, and exactly ideal when the window holds no midpoint.
C19_CutAtNearestSilence ==
    [][(chunk_pc = "loop" /\ chunk_pc' = "loop" /\ Len(chunks') = Len(chunks) + 1)
        => LET ideal == start + target_chunk_duration_ms
               W == {silence_midpoints[k] : k \in
                        {m \in 1..Len(silence_midpoints) :
                            /\ ideal - flexibility_ms <= silence_midpoints[m]
                            /\ silence_midpoints[m] <= ideal + flexibility_ms}}
           IN  IF W = {} THEN start' = ideal
               ELSE /\ start' \in W
                    /\ \A s \in W :
                         /\ Abs(start' - ideal) <= Abs(s - ideal)
                         /\ Abs(s - ideal) = Abs(start' - ideal) => start' <= s]_vars

\* the first cut had a midpoint on either side of ideal at the same distance
\* and was made at the earlier one
C19_Witness ==
    /\ chunk_pc = "loop"
    /\ Len(chunks) = 1
    /\ flexibility_ms >= 1
    /\ \E d \in 1..flexibility_ms :
          /\ silence_midpoints = <<target_chunk_duration_ms - d,
                                   target_chunk_duration_ms + d>>
          /\ start = target_chunk_duration_ms - d

\* values of target_chunk_duration_ms chunk_audio is called with together
\* with a flexibility_ms of the caller's choice
FlexTargetDurations == {2, 3, 5}

\* chunk_audio after lines 23-38, called with flexibility_ms given and
\* smaller than target_chunk_duration_ms
InitChunkFlex ==
    /\ target_chunk_duration_ms \in FlexTargetDurations
    /\ flexibility_ms \in 0..(target_chunk_duration_ms - 1)
    /\ audio_len \in 0..MaxAudioLen
    /\ silence_midpoints \in
          {Ascending(S) : S \in {X \in SUBSET (0..(audio_len - 1)) :
                                    Cardinality(X) <= MaxSilences}}
    /\ start = 0
    /\ chunks = <<>>
    /\ chunk_pc = "loop"
    /\ IdleRec /\ IdleTr /\ IdlePre /\ IdleDrv /\ IdleTs /\ IdleSrt /\ IdleGui

\* the while loop of chunk_audio runs on as long as it can: the function is
\* one sequential piece of code
SpecChunkFlex == InitChunkFlex /\ [][NextChunk]_vars /\ WF_vars(NextChunk)

\* C22: with 0 <= F < T every non-final cut lies strictly after start, the
\* segment it closes is between T - F and T + F long, and chunk_audio
\* returns.
C22_CutsAdvanceAndTerminate ==
    /\ [][(/\ 0 <= flexibility_ms /\ flexibility_ms < target_chunk_duration_ms
           /\ chunk_pc = "loop" /\ chunk_pc' = "loop"
           /\ Len(chunks') = Len(chunks) + 1)
          => /\ start' > start
             /\ chunks'[Len(chunks')].audio = [lo |-> start, hi |-> start']
             /\ start' - start >= target_chunk_duration_ms - flexibility_ms
             /\ start' - start <= target_chunk_duration_ms + flexibility_ms]_vars
    /\ (0 <= flexibility_ms /\ flexibility_ms < target_chunk_duration_ms)
          => <>(chunk_pc = "done")

\* chunk_audio has returned after a first segment of the least length T - F
\* and a second of the greatest length T + F
C22_Witness ==
    /\ chunk_pc = "done"
    /\ flexibility_ms >= 1
    /\ Len(chunks) >= 3
    /\ chunks[1].audio.hi - chunks[1].audio.lo
          = target_chunk_duration_ms - flexibility_ms
    /\ chunks[2].audio.hi - chunks[2].audio.lo
          = target_chunk_duration_ms + flexibility_ms

(***************************************************************************)
(* utils/preprocess_audio.py: preprocess_audio                             *)
(***************************************************************************)
\* line 74
max_duration_ms == 1000 * 60 * 10

\* lines 83-86: the audio is not longer than max_duration_ms and is exported
\* whole
PreprocessWhole ==
    /\ pre_pc = "start"
    /\ ~(audio_len > max_duration_ms)
    /\ out_dir' = {[name  |-> chunk_file_path(1, 0),
                    audio |-> [lo |-> 0, hi |-> audio_len]]}
    /\ pre_pc' = "done"
    /\ UNCHANGED chunkVars
    /\ UNCHANGED <<recVars, trVars, drvVars, tsVars, srtVars, guiVars>>

\* lines 78-79: chunk_audio(input_audio_path,
\* target_chunk_duration_ms=max_duration_ms) is entered
PreprocessCall ==
    /\ pre_pc = "start"
    /\ audio_len > max_duration_ms
    /\ target_chunk_duration_ms' = max_duration_ms
    /\ flexibility_ms' = max_duration_ms \div 5
    /\ start' = 0
    /\ chunks' = <<>>
    /\ chunk_pc' = "loop"
    /\ pre_pc' = "chunking"
    /\ UNCHANGED <<audio_len, silence_midpoints, out_dir>>
    /\ UNCHANGED <<recVars, trVars, drvVars, tsVars, srtVars, guiVars>>

\* lines 80-82: every returned chunk is exported, numbered from 0
PreprocessExport ==
    /\ pre_pc = "chunking"
    /\ chunk_pc = "done"
    /\ out_dir' = {[name  |-> chunk_file_path(k - 1, chunks[k].start_ms),
                    audio |-> chunks[k].audio] : k \in 1..Len(chunks)}
    /\ pre_pc' = "done"
    /\ UNCHANGED chunkVars
    /\ UNCHANGED <<recVars, trVars, drvVars, tsVars, srtVars, guiVars>>

NextPreprocess == PreprocessWhole \/ PreprocessCall \/ PreprocessExport

\* durations of the audio files preprocess_audio is given, in ms
AudioLens == {0, 1, 600000, 600001, 720000, 1200000, 1300000}

\* where the midpoints of the detected silences may lie, in ms
SilenceGrid == {479999, 480000, 590000, 610000, 720000, 720001, 1190000, 1200000}

\* preprocess_audio after line 73
InitPreprocess ==
    /\ pre_pc = "start"
    /\ out_dir = {}
    /\ audio_len \in AudioLens
    /\ silence_midpoints \in
          {Ascending(S) : S \in {X \in SUBSET {g \in SilenceGrid : g < audio_len} :
                                    Cardinality(X) <= MaxSilences}}
    /\ target_chunk_duration_ms = 0
    /\ flexibility_ms = 0
    /\ start = 0
    /\ chunks = <<>>
    /\ chunk_pc = "idle"
    /\ IdleRec /\ IdleTr /\ IdleDrv /\ IdleTs /\ IdleSrt /\ IdleGui

\* chunk_audio called on its own, or preprocess_audio
SpecPre == (InitChunk \/ InitPreprocess) /\ [][NextChunk \/ NextPreprocess]_vars

\* the start offset a chunk file name carries
name_tag(name) == ParseInt(split_last(stem(name)))

\* C13: audio of duration D with 0 < D <= T gives exactly one segment, which
\* covers [0, D) and is tagged 0, from chunk_audio and from preprocess_audio.
C13_ShortAudioOneSegment ==
    /\ (/\ pre_pc = "idle" /\ chunk_pc = "done"
        /\ 0 < audio_len /\ audio_len <= target_chunk_duration_ms)
          => chunks = <<[start_ms |-> 0, audio |-> [lo |-> 0, hi |-> audio_len]]>>
    /\ (/\ pre_pc = "done"
        /\ 0 < audio_len /\ audio_len <= max_duration_ms)
          => /\ Cardinality(out_dir) = 1
             /\ \A f \in out_dir :
                  /\ f.audio = [lo |-> 0, hi |-> audio_len]
                  /\ name_tag(f.name) = 0

\* preprocess_audio has returned for audio of exactly T ms
C13_Witness ==
    /\ pre_pc = "done"
    /\ audio_len = max_duration_ms
    /\ Len(silence_midpoints) >= 1
    /\ out_dir # {}

\* C14: empty audio gives no segment: chunk_audio returns an empty list and
\* preprocess_audio writes no chunk file.
C14_EmptyAudioNoSegment ==
    /\ (pre_pc = "idle" /\ chunk_pc = "done" /\ audio_len = 0) => chunks = <<>>
    /\ (pre_pc = "done" /\ audio_len = 0) => out_dir = {}

(***************************************************************************)
(* models.py: Transcription.translate_subtitles                            *)
(***************************************************************************)
\* lines 217-230: [{'id': sub.index, 'text': sub.text} for sub in subs]
id_text(subs) ==
    [k \in 1..Len(subs) |-> [id |-> subs[k].index, text |-> subs[k].text]]

\* line 208
batch_of(n) == Slice(subtitles, n, n + batch_size)

\* lines 211, 214
previous_context(n) ==
    LET start_context_idx == Max(0, n - overlap)
    IN  IF n > 0 THEN Slice(subtitles, start_context_idx, n) ELSE <<>>

\* next_context starting at the last entry of the batch
next_context_from_batch_end(n) ==
    LET end_context_idx == Min(Len(subtitles), n + batch_size + overlap)
    IN  IF n + batch_size < Len(subtitles)
        THEN Slice(subtitles, n + batch_size - 1, end_context_idx)
        ELSE <<>>

\* lines 212, 215
next_context(n) ==
    LET end_context_idx == Min(Len(subtitles), n + batch_size + overlap)
    IN  IF n + batch_size < Len(subtitles)
        THEN Slice(subtitles, n + batch_size, end_context_idx)
        ELSE <<>>

\* lines 217-256: the three lists the prompt is built from
request_for(n) ==
    [context_before     |-> id_text(previous_context(n)),
     texts_to_translate |-> id_text(batch_of(n)),
     context_after      |-> id_text(next_context(n))]

\* the pair found at position id of the response, whatever its id
get_elem_by_position(translation, id) ==
    IF id \in 1..Len(translation) THEN <<translation[id]>> ELSE <<>>

\* Transcription._get_elem_by_id: the first pair with that id as <<pair>>,
\* or <<>> for None
get_elem_by_id(translation, id) ==
    LET hits == {k \in 1..Len(translation) : translation[k].id = id}
    IN  IF hits = {} THEN <<>>
        ELSE <<translation[CHOOSE k \in hits : \A m \in hits : k <= m]>>

\* lines 267-271: the entry after the response was applied to it
translated_entry(sub, output) ==
    LET translated == get_elem_by_id(output, sub.index)
    IN  [sub EXCEPT !.translation =
            IF translated # <<>> THEN translated[1].text ELSE ""]

\* line 272: the ids of the batch the warning is printed for, in batch order
missing_ids(batch, output) ==
    LET miss == SelectSeq(batch,
                    LAMBDA sub : get_elem_by_id(output, sub.index) = <<>>)
    IN  [k \in 1..Len(miss) |-> miss[k].index]

\* range(0, len, batch_size) stepping over one entry more
next_i_skipping(n) == n + batch_size + 1

\* line 207: the next value of range(0, len(self.subtitles), batch_size)
next_i(n) == n + batch_size

\* A FullTranslation the client may return: up to MaxResp pairs whose ids
\* are ids of the transcript or the unknown id 0, in any order and with
\* repetitions; the first pair has text "x", the others "y"
Responses ==
    LET ids == {subtitles[k].index : k \in 1..Len(subtitles)} \cup {0}
    IN  {[k \in 1..Len(s) |-> [id |-> s[k], text |-> IF k = 1 THEN "x" ELSE "y"]] :
            s \in UNION {[1..m -> ids] : m \in 0..MaxResp}}

\* lines 208-265: the request is built and client.responses.parse returns a
\* FullTranslation
ClientResponds ==
    /\ tr_pc = "loop"
    /\ i < Len(subtitles)
    /\ requests' = Append(requests, request_for(i))
    /\ \E output_parsed \in Responses : translation_output' = <<output_parsed>>
    /\ tr_pc' = "update"
    /\ UNCHANGED <<subtitles, batch_size, overlap, i, warnings>>
    /\ UNCHANGED <<recVars, chunkVars, preVars, drvVars, tsVars, srtVars, guiVars>>

\* the response is applied to the context entries of the request as well
UpdateSubtitles_with_context ==
    /\ tr_pc = "update"
    /\ LET batch == batch_of(i)
           lo    == Max(0, i - overlap)
           hi    == Min(Len(subtitles), i + batch_size + overlap)
       IN  /\ subtitles' =
                 [k \in 1..Len(subtitles) |->
                     IF lo < k /\ k <= hi
                     THEN translated_entry(subtitles[k], translation_output[1])
                     ELSE subtitles[k]]
           /\ warnings' = warnings \o missing_ids(batch, translation_output[1])
    /\ i' = next_i(i)
    /\ translation_output' = <<>>
    /\ tr_pc' = "loop"
    /\ UNCHANGED <<batch_size, overlap, requests>>
    /\ UNCHANGED <<recVars, chunkVars, preVars, drvVars, tsVars, srtVars, guiVars>>

\* lines 266-272: "for subtitle in batch", then the next value of i
UpdateSubtitles ==
    /\ tr_pc = "update"
    /\ LET batch == batch_of(i)
       IN  /\ subtitles' =
                 [k \in 1..Len(subtitles) |->
                     IF i < k /\ k <= i + Len(batch)
                     THEN translated_entry(subtitles[k], translation_output[1])
                     ELSE subtitles[k]]
           /\ warnings' = warnings \o missing_ids(batch, translation_output[1])
    /\ i' = next_i(i)
    /\ translation_output' = <<>>
    /\ tr_pc' = "loop"
    /\ UNCHANGED <<batch_size, overlap, requests>>
    /\ UNCHANGED <<recVars, chunkVars, preVars, drvVars, tsVars, srtVars, guiVars>>

\* the failure is swallowed: the window is left untranslated and the loop
\* goes on
TranslateRaise_swallowed ==
    /\ tr_pc = "loop"
    /\ i < Len(subtitles)
    /\ requests' = Append(requests, request_for(i))
    /\ i' = next_i(i)
    /\ UNCHANGED <<subtitles, batch_size, overlap, translation_output, warnings, tr_pc>>
    /\ UNCHANGED <<recVars, chunkVars, preVars, drvVars, tsVars, srtVars, guiVars>>

\* lines 208-262: the request is built and client.responses.parse raises (or
\* returns no parsed output, and line 286 raises); nothing catches it
TranslateRaise ==
    /\ tr_pc = "loop"
    /\ i < Len(subtitles)
    /\ requests' = Append(requests, request_for(i))
    /\ tr_pc' = "raised"
    /\ UNCHANGED <<subtitles, batch_size, overlap, i, translation_output, warnings>>
    /\ UNCHANGED <<recVars, chunkVars, preVars, drvVars, tsVars, srtVars, guiVars>>

\* line 207: the range is exhausted
TranslateReturn ==
    /\ tr_pc = "loop"
    /\ i >= Len(subtitles)
    /\ tr_pc' = "done"
    /\ UNCHANGED <<subtitles, batch_size, overlap, i, requests, translation_output, warnings>>
    /\ UNCHANGED <<recVars, chunkVars, preVars, drvVars, tsVars, srtVars, guiVars>>

NextTranslate == ClientResponds \/ UpdateSubtitles \/ TranslateRaise \/ TranslateReturn

\* text of the k-th entry, distinct for distinct entries
Texts == <<"a", "b", "c", "d", "e", "f", "g">>

\* index of the k-th entry: 1..n, or the indices 1, 2, 2, ... that
\* process_transcription gives to single-entry segments
IndexSeqs(n) == {[k \in 1..n |-> k], [k \in 1..n |-> Min(k, 2)]}

\* a transcript as from_srt and process_transcription leave it, and the
\* parameters of the call
InitTranslate ==
    /\ \E n \in 0..MaxEntries : \E idx \in IndexSeqs(n) :
          subtitles = [k \in 1..n |->
                          [index       |-> idx[k],
                           start_time  |-> Timestamp_str(1000 * k),
                           end_time    |-> Timestamp_str(1000 * k + 500),
                           text        |-> Texts[k],
                           translation |-> None]]
    /\ batch_size \in 1..MaxBatch
    /\ overlap \in 0..MaxOverlap
    /\ i = 0
    /\ requests = <<>>
    /\ translation_output = <<>>
    /\ warnings = <<>>
    /\ tr_pc = "loop"
    /\ IdleRec /\ IdleChunk /\ IdlePre /\ IdleDrv /\ IdleTs /\ IdleSrt /\ IdleGui

SpecTranslate == InitTranslate /\ [][NextTranslate]_vars

(***************************************************************************)
(* Batch translation: claims                                               *)
(***************************************************************************)
\* the {id, text} items of the entries at 0-based positions lo .. hi - 1
ItemsAt(lo, hi) ==
    [k \in 1..(IF hi > lo THEN hi - lo ELSE 0) |->
        [id |-> subtitles[lo + k].index, text |-> subtitles[lo + k].text]]

SeqToSet(q) == {q[k] : k \in 1..Len(q)}

\* C7: the r-th request is the one of window start w = (r - 1) * batch_size:
\* items [w, min(w + b, n)), preceding context [max(0, w - o), w), following
\* context [w + b, min(n, w + b + o)), pairwise disjoint; when the call
\* returns there is one request per window start below n.
C7_WindowsAndContext ==
    LET n == Len(subtitles)
    IN  /\ \A r \in 1..Len(requests) :
            LET w == (r - 1) * batch_size
            IN  /\ w < n
                /\ requests[r].texts_to_translate = ItemsAt(w, Min(w + batch_size, n))
                /\ requests[r].context_before = ItemsAt(Max(0, w - overlap), w)
                /\ requests[r].context_after =
                      ItemsAt(w + batch_size, Min(n, w + batch_size + overlap))
                /\ SeqToSet(requests[r].texts_to_translate)
                      \cap SeqToSet(requests[r].context_before) = {}
                /\ SeqToSet(requests[r].texts_to_translate)
                      \cap SeqToSet(requests[r].context_after) = {}
                /\ SeqToSet(requests[r].context_before)
                      \cap SeqToSet(requests[r].context_after) = {}
        /\ tr_pc = "done" => Len(requests) * batch_size >= n

\* batch_size = 2, overlap = 1 over entries 1..5
C7_Witness ==
    LET P(k) == [id |-> k, text |-> Texts[k]]
    IN  /\ tr_pc = "done"
        /\ batch_size = 2
        /\ overlap = 1
        /\ requests =
              <<[context_before |-> <<>>, texts_to_translate |-> <<P(1), P(2)>>,
                 context_after |-> <<P(3)>>],
                [context_before |-> <<P(2)>>, texts_to_translate |-> <<P(3), P(4)>>,
                 context_after |-> <<P(5)>>],
                [context_before |-> <<P(4)>>, texts_to_translate |-> <<P(5)>>,
                 context_after |-> <<>>]>>

\* C8: when translate_subtitles returns, every entry has a translation, was
\* an item to translate of exactly one request, and the requests were issued
\* in ascending order of their items; an empty transcript issues no request.
C8_AllTranslatedOnce ==
    tr_pc = "done" =>
        LET PosOf(item) == CHOOSE k \in 1..Len(subtitles) : subtitles[k].text = item.text
            SentIn(k)   == {r \in 1..Len(requests) :
                               [id |-> subtitles[k].index, text |-> subtitles[k].text]
                                   \in SeqToSet(requests[r].texts_to_translate)}
        IN  /\ \A k \in 1..Len(subtitles) :
                /\ subtitles[k].translation # None
                /\ Cardinality(SentIn(k)) = 1
            /\ \A r \in 1..Len(requests) : \A q \in (r + 1)..Len(requests) :
                  \A a \in SeqToSet(requests[r].texts_to_translate) :
                      \A b \in SeqToSet(requests[q].texts_to_translate) :
                          PosOf(a) < PosOf(b)
            /\ Len(subtitles) = 0 => requests = <<>>

\* five entries translated in three or more windows
C8_Witness ==
    /\ tr_pc = "done"
    /\ Len(subtitles) = 5
    /\ Len(requests) >= 3
    /\ \A k \in 1..5 : subtitles[k].translation \in {"", "x", "y"}

\* C9: applying a response gives every entry of the window the text of the
\* first pair carrying its id, wherever that pair stands, or the empty string
\* and a warning when no pair carries it; the loop then goes on.
C9_MatchedById ==
    [][tr_pc = "update" =>
        LET output == translation_output[1]
            hi     == Min(i + batch_size, Len(subtitles))
            Hits(k) == {p \in 1..Len(output) : output[p].id = subtitles[k].index}
            Missing == {k \in (i + 1)..hi : Hits(k) = {}}
        IN  /\ \A k \in (i + 1)..hi :
                IF Hits(k) # {}
                THEN \E p \in Hits(k) :
                        /\ \A m \in Hits(k) : p <= m
                        /\ subtitles'[k].translation = output[p].text
                ELSE subtitles'[k].translation = ""
            /\ Len(warnings') = Len(warnings) + Cardinality(Missing)
            /\ \A k \in Missing :
                  \E m \in (Len(warnings) + 1)..Len(warnings') :
                      warnings'[m] = subtitles[k].index
            /\ tr_pc' = "loop"
            /\ i' = i + batch_size]_vars

\* entry 1 had no pair and got the empty string with a warning; a later entry
\* was matched by a pair that was not the first of its response
C9_Witness ==
    /\ tr_pc = "done"
    /\ Len(subtitles) >= 3
    /\ subtitles[1].translation = ""
    /\ warnings # <<>>
    /\ warnings[1] = subtitles[1].index
    /\ subtitles[3].translation = "y"

\* C10: a step in which the call for window i fails leaves every translation
\* as it is, the entries of window i and later being untranslated, and ends
\* translate_subtitles with the exception: nothing happens after it.
C10_FailureKeepsCompleted ==
    [][/\ (Len(requests') > Len(requests) /\ translation_output' = <<>>)
          => /\ tr_pc' = "raised"
             /\ subtitles' = subtitles
             /\ \A k \in (i + 1)..Len(subtitles) : subtitles'[k].translation = None
       /\ tr_pc = "raised" => vars' = vars]_vars

\* the call of the second or a later window failed after an earlier window
\* had been translated
C10_Witness ==
    /\ tr_pc = "raised"
    /\ i > 0
    /\ subtitles[1].translation = "x"
    /\ subtitles[i + 1].translation = None
    /\ Len(requests) >= 2

\* C20: a step of translate_subtitles changes no entry's index, start_time,
\* end_time or text, and changes the translation only of the entries of the
\* window whose response is being applied, whatever ids the response holds.
C20_OnlyWindowTranslationChanges ==
    [][/\ Len(subtitles') = Len(subtitles)
       /\ \A k \in 1..Len(subtitles) :
            /\ subtitles'[k].index = subtitles[k].index
            /\ subtitles'[k].start_time = subtitles[k].start_time
            /\ subtitles'[k].end_time = subtitles[k].end_time
            /\ subtitles'[k].text = subtitles[k].text
            /\ ~(tr_pc = "update" /\ i < k /\ k <= i + batch_size)
                  => subtitles'[k].translation = subtitles[k].translation]_vars

\* the first window has been applied and the response to the second window
\* holds a pair for the last entry of the preceding context
C20_Witness ==
    /\ tr_pc = "update"
    /\ i >= 1
    /\ overlap >= 1
    /\ subtitles[i].translation = "x"
    /\ subtitles[i].index # subtitles[i + 1].index
    /\ \E p \in 1..Len(translation_output[1]) :
          /\ translation_output[1][p].id = subtitles[i].index
          /\ translation_output[1][p].text = "y"

(***************************************************************************)
(* transcribe.py: transcribe_video.  The working directory temp/<uuid> is  *)
(* the set fs of the paths that exist below it; what the stages compute is *)
(* left to the other specifications.                                       *)
(***************************************************************************)
TEMP_DIRECTORY                  == <<"temp">>
TEMP_DIR_AUDIO_FILE             == <<"temp", "1_audio_file">>
TEMP_FILE_AUDIO_FILE            == <<"temp", "1_audio_file", "temp_audio.wav">>
TEMP_DIR_AUDIO_CHUNKS           == <<"temp", "2_audio_chunks">>
TEMP_DIR_WHISPER_OUTPUT         == <<"temp", "3_whisper_output">>
TEMP_DIR_SRT_OUTPUT             == <<"temp", "4_srt_output">>
TEMP_FILE_SRT_OUTPUT            == <<"temp", "4_srt_output", "temp_srt.srt">>
TEMP_DIR_TRANSLATED_SRT_OUTPUT  == <<"temp", "5_translated_srt_output">>
TEMP_FILE_TRANSLATED_SRT_OUTPUT ==
    <<"temp", "5_translated_srt_output", "temp_translated_srt.srt">>

chunk_stems == <<"chunk_0", "chunk_1", "chunk_2", "chunk_3", "chunk_4">>
chunk_wavs(n) == {<<"temp", "2_audio_chunks", chunk_stems[k], "wav">> : k \in 1..n}
whisper_srts(n) == {<<"temp", "3_whisper_output", chunk_stems[k], "srt">> : k \in 1..n}

\* lines 47-49, in the order they are written
output_srts == <<"output_srt_english", "output_srt_chinese", "output_srt_bilingual">>

\* a stage raises and nothing of transcribe_video catches it
raise_in(stage) ==
    /\ drv_failed' = stage
    /\ drv_pc' = "raised"

\* the next stage is entered
enter(stage) ==
    /\ drv_pc' = stage
    /\ stages_run' = Append(stages_run, stage)

\* lines 45-70: the working directory is created
DrvStart ==
    /\ drv_pc = "start"
    /\ fs' = {TEMP_DIRECTORY}
    /\ enter("ffmpeg")
    /\ UNCHANGED <<out_files, drv_failed, drv_chunks, drv_done, drv_windows, drv_win>>
    /\ UNCHANGED <<recVars, chunkVars, trVars, preVars, tsVars, srtVars, guiVars>>

\* lines 73-74: static_ffmpeg.add_paths() returns
DrvFfmpeg ==
    /\ drv_pc = "ffmpeg"
    /\ enter("convert")
    /\ UNCHANGED <<fs, out_files, drv_failed, drv_chunks, drv_done, drv_windows, drv_win>>
    /\ UNCHANGED <<recVars, chunkVars, trVars, preVars, tsVars, srtVars, guiVars>>

\* lines 75-77: it raises, RuntimeError("ffmpeg setup failed.") is raised
DrvFfmpegFail ==
    /\ drv_pc = "ffmpeg"
    /\ raise_in("ffmpeg")
    /\ UNCHANGED <<fs, out_files, stages_run, drv_chunks, drv_done, drv_windows, drv_win>>
    /\ UNCHANGED <<recVars, chunkVars, trVars, preVars, tsVars, srtVars, guiVars>>

\* lines 80-84: the audio is extracted
DrvConvert ==
    /\ drv_pc = "convert"
    /\ fs' = fs \cup {TEMP_DIR_AUDIO_FILE, TEMP_FILE_AUDIO_FILE}
    /\ enter("preprocess")
    /\ UNCHANGED <<out_files, drv_failed, drv_chunks, drv_done, drv_windows, drv_win>>
    /\ UNCHANGED <<recVars, chunkVars, trVars, preVars, tsVars, srtVars, guiVars>>

\* lines 85-88: convert_video_to_audio raises RuntimeError, the handler
\* removes the working directory and raises
DrvConvertRuntimeError ==
    /\ drv_pc = "convert"
    /\ fs' = {}
    /\ raise_in("convert")
    /\ UNCHANGED <<out_files, stages_run, drv_chunks, drv_done, drv_windows, drv_win>>
    /\ UNCHANGED <<recVars, chunkVars, trVars, preVars, tsVars, srtVars, guiVars>>

\* convert_video_to_audio.py line 32: the input file is empty, ValueError;
\* "except RuntimeError" does not catch it
DrvConvertValueError ==
    /\ drv_pc = "convert"
    /\ fs' = fs \cup {TEMP_DIR_AUDIO_FILE}
    /\ raise_in("convert")
    /\ UNCHANGED <<out_files, stages_run, drv_chunks, drv_done, drv_windows, drv_win>>
    /\ UNCHANGED <<recVars, chunkVars, trVars, preVars, tsVars, srtVars, guiVars>>

\* lines 91-98: the chunks are written, the extracted audio is deleted
DrvPreprocess ==
    /\ drv_pc = "preprocess"
    /\ fs' = (fs \cup {TEMP_DIR_AUDIO_CHUNKS} \cup chunk_wavs(drv_chunks))
                \ {TEMP_FILE_AUDIO_FILE, TEMP_DIR_AUDIO_FILE}
    /\ enter("transcribe")
    /\ UNCHANGED <<out_files, drv_failed, drv_chunks, drv_done, drv_windows, drv_win>>
    /\ UNCHANGED <<recVars, chunkVars, trVars, preVars, tsVars, srtVars, guiVars>>

\* lines 92-93: preprocess_audio raises
DrvPreprocessFail ==
    /\ drv_pc = "preprocess"
    /\ fs' = fs \cup {TEMP_DIR_AUDIO_CHUNKS}
    /\ raise_in("preprocess")
    /\ UNCHANGED <<out_files, stages_run, drv_chunks, drv_done, drv_windows, drv_win>>
    /\ UNCHANGED <<recVars, chunkVars, trVars, preVars, tsVars, srtVars, guiVars>>

\* lines 101-103, process_trancsription.py lines 21-36: one chunk is transcribed
DrvTranscribeChunk ==
    /\ drv_pc = "transcribe"
    /\ drv_done < drv_chunks
    /\ fs' = fs \cup {TEMP_DIR_WHISPER_OUTPUT} \cup whisper_srts(drv_done + 1)
    /\ drv_done' = drv_done + 1
    /\ UNCHANGED <<drv_pc, out_files, stages_run, drv_failed, drv_chunks, drv_windows, drv_win>>
    /\ UNCHANGED <<recVars, chunkVars, trVars, preVars, tsVars, srtVars, guiVars>>

\* process_trancsription.py lines 30-32: the Whisper call of a chunk fails
DrvTranscribeFail ==
    /\ drv_pc = "transcribe"
    /\ drv_done < drv_chunks
    /\ fs' = fs \cup {TEMP_DIR_WHISPER_OUTPUT}
    /\ raise_in("transcribe")
    /\ UNCHANGED <<out_files, stages_run, drv_chunks, drv_done, drv_windows, drv_win>>
    /\ UNCHANGED <<recVars, chunkVars, trVars, preVars, tsVars, srtVars, guiVars>>

\* lines 104-109: every chunk is transcribed, the chunks are deleted
DrvTranscribeEnd ==
    /\ drv_pc = "transcribe"
    /\ drv_done = drv_chunks
    /\ fs' = fs \ ({TEMP_DIR_AUDIO_CHUNKS} \cup chunk_wavs(drv_chunks))
    /\ enter("merge")
    /\ UNCHANGED <<out_files, drv_failed, drv_chunks, drv_done, drv_windows, drv_win>>
    /\ UNCHANGED <<recVars, chunkVars, trVars, preVars, tsVars, srtVars, guiVars>>

\* lines 112-122: the merged SRT is written, the Whisper output is deleted
DrvMerge ==
    /\ drv_pc = "merge"
    /\ fs' = (fs \cup {TEMP_DIR_SRT_OUTPUT, TEMP_FILE_SRT_OUTPUT})
                \ ({TEMP_DIR_WHISPER_OUTPUT} \cup whisper_srts(drv_chunks))
    /\ enter("translate")
    /\ UNCHANGED <<out_files, drv_failed, drv_chunks, drv_done, drv_windows, drv_win>>
    /\ UNCHANGED <<recVars, chunkVars, trVars, preVars, tsVars, srtVars, guiVars>>

\* lines 113-116: process_transcription or the write of the merged SRT raises
DrvMergeFail ==
    /\ drv_pc = "merge"
    /\ fs' = fs \cup {TEMP_DIR_SRT_OUTPUT}
    /\ raise_in("merge")
    /\ UNCHANGED <<out_files, stages_run, drv_chunks, drv_done, drv_windows, drv_win>>
    /\ UNCHANGED <<recVars, chunkVars, trVars, preVars, tsVars, srtVars, guiVars>>

\* lines 125-127, models.py lines 207-272: one window is translated
DrvTranslateWindow ==
    /\ drv_pc = "translate"
    /\ drv_win < drv_windows
    /\ fs' = fs \cup {TEMP_DIR_TRANSLATED_SRT_OUTPUT}
    /\ drv_win' = drv_win + 1
    /\ UNCHANGED <<drv_pc, out_files, stages_run, drv_failed, drv_chunks, drv_done, drv_windows>>
    /\ UNCHANGED <<recVars, chunkVars, trVars, preVars, tsVars, srtVars, guiVars>>

\* the failure of a window is recorded and the next window is translated
DrvTranslateFail_skipped ==
    /\ drv_pc = "translate"
    /\ drv_win < drv_windows
    /\ fs' = fs \cup {TEMP_DIR_TRANSLATED_SRT_OUTPUT}
    /\ drv_failed' = "translate"
    /\ drv_win' = drv_win + 1
    /\ UNCHANGED <<drv_pc, out_files, stages_run, drv_chunks, drv_done, drv_windows>>
    /\ UNCHANGED <<recVars, chunkVars, trVars, preVars, tsVars, srtVars, guiVars>>

\* models.py lines 258-262: the translation call of a window raises
DrvTranslateFail ==
    /\ drv_pc = "translate"
    /\ drv_win < drv_windows
    /\ fs' = fs \cup {TEMP_DIR_TRANSLATED_SRT_OUTPUT}
    /\ raise_in("translate")
    /\ UNCHANGED <<out_files, stages_run, drv_chunks, drv_done, drv_windows, drv_win>>
    /\ UNCHANGED <<recVars, chunkVars, trVars, preVars, tsVars, srtVars, guiVars>>

\* lines 128-130: every window is translated, the temp translated SRT is written
DrvTranslateEnd ==
    /\ drv_pc = "translate"
    /\ drv_win = drv_windows
    /\ fs' = fs \cup {TEMP_DIR_TRANSLATED_SRT_OUTPUT, TEMP_FILE_TRANSLATED_SRT_OUTPUT}
    /\ enter("save")
    /\ UNCHANGED <<out_files, drv_failed, drv_chunks, drv_done, drv_windows, drv_win>>
    /\ UNCHANGED <<recVars, chunkVars, trVars, preVars, tsVars, srtVars, guiVars>>

\* lines 133-145: the next of the three subtitle files is written
DrvSaveFile ==
    /\ drv_pc = "save"
    /\ Cardinality(out_files) < Len(output_srts)
    /\ out_files' = out_files \cup {output_srts[Cardinality(out_files) + 1]}
    /\ UNCHANGED <<drv_pc, fs, stages_run, drv_failed, drv_chunks, drv_done, drv_windows, drv_win>>
    /\ UNCHANGED <<recVars, chunkVars, trVars, preVars, tsVars, srtVars, guiVars>>

\* lines 136-145: opening or writing a subtitle file raises
DrvSaveFail ==
    /\ drv_pc = "save"
    /\ Cardinality(out_files) < Len(output_srts)
    /\ raise_in("save")
    /\ UNCHANGED <<fs, out_files, stages_run, drv_chunks, drv_done, drv_windows, drv_win>>
    /\ UNCHANGED <<recVars, chunkVars, trVars, preVars, tsVars, srtVars, guiVars>>

\* lines 147-152 and _cleanup_temp_directory: everything below the working
\* directory and the directory itself are removed
DrvCleanup ==
    /\ drv_pc = "save"
    /\ Cardinality(out_files) = Len(output_srts)
    /\ fs' = {}
    /\ drv_pc' = "returned"
    /\ UNCHANGED <<out_files, stages_run, drv_failed, drv_chunks, drv_done, drv_windows, drv_win>>
    /\ UNCHANGED <<recVars, chunkVars, trVars, preVars, tsVars, srtVars, guiVars>>

NextDriver ==
    \/ DrvStart \/ DrvFfmpeg \/ DrvFfmpegFail
    \/ DrvConvert \/ DrvConvertRuntimeError \/ DrvConvertValueError
    \/ DrvPreprocess \/ DrvPreprocessFail
    \/ DrvTranscribeChunk \/ DrvTranscribeFail \/ DrvTranscribeEnd
    \/ DrvMerge \/ DrvMergeFail
    \/ DrvTranslateWindow \/ DrvTranslateFail \/ DrvTranslateEnd
    \/ DrvSaveFile \/ DrvSaveFail \/ DrvCleanup

\* a job about to start: the audio will be cut in drv_chunks chunks, the
\* merged transcript will take drv_windows translation windows
InitDriver ==
    /\ drv_pc = "start"
    /\ fs = {}
    /\ out_files = {}
    /\ stages_run = <<>>
    /\ drv_failed = None
    /\ drv_chunks \in 1..MaxDrvChunks
    /\ drv_done = 0
    /\ drv_windows \in 0..MaxDrvWindows
    /\ drv_win = 0
    /\ IdleRec /\ IdleChunk /\ IdleTr /\ IdlePre /\ IdleTs /\ IdleSrt /\ IdleGui

SpecDriver == InitDriver /\ [][NextDriver]_vars

\* C11: on every exit of transcribe_video, by return or by exception, the
\* working directory and everything in it has been removed.
C11_TempRemovedOnEveryExit ==
    drv_pc \in {"returned", "raised"} => fs = {}

\* C12: a failure in a stage before the output writing ends the job in that
\* stage with no subtitle file written; subtitle files exist only once every
\* translation window has completed.
C12_NoPartialOutput ==
    /\ (drv_failed # None /\ drv_failed # "save")
          => /\ drv_pc = "raised"
             /\ out_files = {}
             /\ stages_run[Len(stages_run)] = drv_failed
    /\ out_files # {}
          => /\ drv_win = drv_windows
             /\ \E k \in 1..Len(stages_run) : stages_run[k] = "translate"
             /\ stages_run[Len(stages_run)] = "save"

\* the second or a later translation window failed
C12_Witness ==
    /\ drv_pc = "raised"
    /\ drv_failed = "translate"
    /\ drv_win >= 1
    /\ drv_chunks >= 2
    /\ out_files = {}

\* C21: the extracted audio is gone when transcription starts, the audio
\* chunks are gone when merging starts, the Whisper SRT files are gone when
\* translation starts and the merged temp SRT is gone when the output files
\* are written.
C21_TempOutputDiscardedInTime ==
    /\ drv_pc \in {"transcribe", "merge", "translate", "save"}
          => TEMP_FILE_AUDIO_FILE \notin fs
    /\ drv_pc \in {"merge", "translate", "save"}
          => chunk_wavs(drv_chunks) \cap fs = {}
    /\ drv_pc \in {"translate", "save"}
          => whisper_srts(drv_chunks) \cap fs = {}
    /\ drv_pc = "save"
          => TEMP_FILE_SRT_OUTPUT \notin fs

(***************************************************************************)
(* models.py: Timestamp on the text of its argument.  A string is the      *)
(* sequence of its character codes.                                        *)
(***************************************************************************)
is_digit(c) == 48 <= c /\ c <= 57

\* the pattern (\d{2}):(\d{2}):(\d{2}),(\d{3}) matches s from position p on
timestamp_at(s, p) ==
    /\ p + 11 <= Len(s)
    /\ \A k \in {0, 1, 3, 4, 6, 7, 9, 10, 11} : is_digit(s[p + k])
    /\ s[p + 2] = 58 /\ s[p + 5] = 58
    /\ s[p + 8] = 44

\* line 52: re.match(pattern, time), which looks for the pattern at the
\* start of time and does not look at what follows it
timestamp_match(time) == timestamp_at(time, 1)

\* line 55: map(int, match.groups())
match_groups(time) ==
    <<ParseInt(SubSeq(time, 1, 2)), ParseInt(SubSeq(time, 4, 5)),
      ParseInt(SubSeq(time, 7, 8)), ParseInt(SubSeq(time, 10, 12))>>

\* f"{n:0w}": at least w digits, padded with zeros on the left
zero_pad(n, w) ==
    LET d == Digits(n)
    IN  IF Len(d) >= w THEN d ELSE [k \in 1..(w - Len(d)) |-> 48] \o d

\* line 71: f"{hr:02}:{min:02}:{s:02},{ms:03}"
Timestamp_format(milliseconds) ==
    LET f == Timestamp_str(milliseconds)
    IN  zero_pad(f[1], 2) \o <<58>> \o zero_pad(f[2], 2) \o <<58>>
            \o zero_pad(f[3], 2) \o <<44>> \o zero_pad(f[4], 3)

\* lines 38-39, 51-57: Timestamp(time) is constructed
TimestampInit ==
    /\ ts_pc = "start"
    /\ timestamp_match(ts_time)
    /\ ts_ms' = Timestamp_parse(match_groups(ts_time))
    /\ ts_pc' = "parsed"
    /\ UNCHANGED <<ts_time, ts_text>>
    /\ UNCHANGED <<recVars, chunkVars, trVars, preVars, drvVars, srtVars, guiVars>>

\* lines 53-54: raise ValueError(f"Invalid timestamp format: {time}")
TimestampRaise ==
    /\ ts_pc = "start"
    /\ ~timestamp_match(ts_time)
    /\ ts_pc' = "raised"
    /\ UNCHANGED <<ts_time, ts_ms, ts_text>>
    /\ UNCHANGED <<recVars, chunkVars, trVars, preVars, drvVars, srtVars, guiVars>>

\* lines 60-71: str(timestamp)
TimestampStr ==
    /\ ts_pc = "parsed"
    /\ ts_text' = Timestamp_format(ts_ms)
    /\ ts_pc' = "formatted"
    /\ UNCHANGED <<ts_time, ts_ms>>
    /\ UNCHANGED <<recVars, chunkVars, trVars, preVars, drvVars, srtVars, guiVars>>

NextTimestamp == TimestampInit \/ TimestampRaise \/ TimestampStr

\* the strings Timestamp is given: two digits per field (three for the
\* milliseconds), the usual separators or others, and possibly more text
\* after or before them
TwoDigits   == {<<48, 48>>, <<48, 49>>, <<53, 57>>, <<57, 57>>}
ThreeDigits == {<<48, 48, 48>>, <<53, 48, 48>>, <<57, 57, 57>>}
TimeStrings ==
    {pre \o hh \o <<58>> \o mm \o <<sep>> \o ss \o <<44>> \o ms \o post :
        pre \in {<<>>, <<32>>}, hh \in {<<48, 48>>, <<57, 57>>, <<49>>},
        mm \in TwoDigits, sep \in {58, 46}, ss \in {<<48, 48>>, <<53, 57>>},
        ms \in ThreeDigits, post \in {<<>>, <<120>>, <<48>>}}

InitTimestamp ==
    /\ ts_time \in TimeStrings
    /\ ts_ms = 0
    /\ ts_text = <<>>
    /\ ts_pc = "start"
    /\ IdleRec /\ IdleChunk /\ IdleTr /\ IdlePre /\ IdleDrv /\ IdleSrt /\ IdleGui

SpecTimestamp == InitTimestamp /\ [][NextTimestamp]_vars

\* C16: formatting the parsed value of an accepted string gives the string
\* back, and a string that is not exactly of the form HH:MM:SS,mmm is
\* rejected.
C16_ParseFormatIdentity ==
    /\ ts_pc = "formatted" => ts_text = ts_time
    /\ ts_pc \in {"parsed", "formatted"}
          => /\ Len(ts_time) = 12
             /\ \A k \in {1, 2, 4, 5, 7, 8, 10, 11, 12} : is_digit(ts_time[k])
             /\ ts_time[3] = 58 /\ ts_time[6] = 58 /\ ts_time[9] = 44

(***************************************************************************)
(* models.py: to_srt_block, to_srt and from_srt on the SRT text.  An       *)
(* Optional[str] is <<>> for None and <<s>> for the string s.              *)
(***************************************************************************)
newline == <<10>>
arrow   == <<32, 45, 45, 62, 32>>    \* " --> "

\* Python's truth value of an Optional[str]
truthy(opt) == opt # <<>> /\ opt[1] # <<>>

\* to_srt_block testing "is not None" where the code tests the truth value
to_srt_block_not_none(sub, use_translation, is_bilingual) ==
    LET content == IF is_bilingual /\ sub.translation # <<>>
                   THEN sub.text \o newline \o sub.translation[1]
                   ELSE IF use_translation /\ sub.translation # <<>>
                        THEN sub.translation[1] ELSE sub.text
    IN  Digits(sub.index) \o newline \o sub.start_time \o arrow \o sub.end_time
            \o newline \o content \o newline

\* to_srt_block writing the translation above the original text
to_srt_block_translation_first(sub, use_translation, is_bilingual) ==
    LET content == IF is_bilingual /\ truthy(sub.translation)
                   THEN sub.translation[1] \o newline \o sub.text
                   ELSE IF use_translation /\ truthy(sub.translation)
                        THEN sub.translation[1] ELSE sub.text
    IN  Digits(sub.index) \o newline \o sub.start_time \o arrow \o sub.end_time
            \o newline \o content \o newline

\* lines 103-106
to_srt_block(sub, use_translation, is_bilingual) ==
    LET content == IF is_bilingual /\ truthy(sub.translation)
                   THEN sub.text \o newline \o sub.translation[1]
                   ELSE IF use_translation /\ truthy(sub.translation)
                        THEN sub.translation[1] ELSE sub.text
    IN  Digits(sub.index) \o newline \o sub.start_time \o arrow \o sub.end_time
            \o newline \o content \o newline

\* sep.join(parts)
RECURSIVE join(_, _)
join(sep, parts) ==
    IF Len(parts) = 0 THEN <<>>
    ELSE IF Len(parts) = 1 THEN parts[1]
    ELSE parts[1] \o sep \o join(sep, Tail(parts))

\* the blocks line 185 joins
srt_blocks_of(subs, use_translation, is_bilingual) ==
    [k \in 1..Len(subs) |-> to_srt_block(subs[k], use_translation, is_bilingual)]

\* line 185
to_srt(subs, use_translation, is_bilingual) ==
    join(newline, srt_blocks_of(subs, use_translation, is_bilingual))

is_space(c) == c \in {9, 10, 11, 12, 13, 32}

\* str.strip()
strip(s) ==
    LET keep == {k \in 1..Len(s) : ~is_space(s[k])}
    IN  IF keep = {} THEN <<>>
        ELSE SubSeq(s, CHOOSE k \in keep : \A m \in keep : k <= m,
                       CHOOSE k \in keep : \A m \in keep : m <= k)

\* (\d+) from position p: the position after the longest run of digits
digits_end(s, p) ==
    CHOOSE q \in p..(Len(s) + 1) :
        /\ q = Len(s) + 1 \/ ~is_digit(s[q])
        /\ \A r \in p..(q - 1) : is_digit(s[r])

\* (?=\n\n|\Z) holds at position e
block_end_at(s, e) ==
    \/ e = Len(s) + 1
    \/ e < Len(s) /\ s[e] = 10 /\ s[e + 1] = 10

\* (.+?)(?=\n\n|\Z) from position t: the position after the shortest text of
\* at least one character that a blank line or the end follows
text_end(s, t) ==
    CHOOSE e \in (t + 1)..(Len(s) + 1) :
        /\ block_end_at(s, e)
        /\ \A r \in (t + 1)..(e - 1) : ~block_end_at(s, r)

\* line 146: the pattern matches s from position p on
block_at(s, p) ==
    LET q == digits_end(s, p)
    IN  /\ q > p
        /\ q + 31 <= Len(s)
        /\ s[q] = 10
        /\ timestamp_at(s, q + 1)
        /\ SubSeq(s, q + 13, q + 17) = arrow
        /\ timestamp_at(s, q + 18)
        /\ s[q + 30] = 10

\* the groups of that match and the position after it
block_groups(s, p) ==
    LET q == digits_end(s, p)
        e == text_end(s, q + 31)
    IN  [index |-> SubSeq(s, p, q - 1),
         start |-> SubSeq(s, q + 1, q + 12),
         end   |-> SubSeq(s, q + 18, q + 29),
         text  |-> SubSeq(s, q + 31, e - 1),
         next  |-> e]

\* line 147: re.findall from position p on: the leftmost match, then the
\* matches after its end
RECURSIVE findall(_, _)
findall(s, p) ==
    IF p > Len(s) THEN <<>>
    ELSE IF block_at(s, p)
         THEN LET g == block_groups(s, p) IN <<g>> \o findall(s, g.next)
         ELSE findall(s, p + 1)

\* lines 146-161
from_srt_text(srt_content, end_time) ==
    LET matches == findall(strip(srt_content) \o <<10, 10>>, 1)
        subs == [k \in 1..Len(matches) |->
                    [index       |-> ParseInt(matches[k].index),
                     start_time  |-> matches[k].start,
                     end_time    |-> matches[k].end,
                     text        |-> strip(matches[k].text),
                     translation |-> <<>>]]
    IN  [subtitles |-> subs,
         end_time  |-> end_time,
         end_index |-> IF Len(subs) > 0 THEN subs[Len(subs)].index ELSE 0]

\* lines 137, 141, 145 of transcribe.py: the transcript is rendered in its
\* three variants
ToSrt ==
    /\ srt_pc = "start"
    /\ srt_blocks' = [original   |-> srt_blocks_of(srt_subtitles, FALSE, FALSE),
                      translated |-> srt_blocks_of(srt_subtitles, TRUE, FALSE),
                      bilingual  |-> srt_blocks_of(srt_subtitles, FALSE, TRUE)]
    /\ rendered' = [original   |-> to_srt(srt_subtitles, FALSE, FALSE),
                    translated |-> to_srt(srt_subtitles, TRUE, FALSE),
                    bilingual  |-> to_srt(srt_subtitles, FALSE, TRUE)]
    /\ srt_pc' = "rendered"
    /\ UNCHANGED <<srt_subtitles, srt_text, srt_input, parsed>>
    /\ UNCHANGED <<recVars, chunkVars, trVars, preVars, drvVars, tsVars, guiVars>>

\* from_srt is given a rendering of the transcript
FromSrtRendered ==
    /\ srt_pc = "rendered"
    /\ \E variant \in {"original", "bilingual"} :
          /\ srt_input' = variant
          /\ srt_text' = rendered[variant]
          /\ parsed' = from_srt_text(rendered[variant], 0).subtitles
    /\ srt_pc' = "parsed"
    /\ UNCHANGED <<srt_subtitles, srt_blocks, rendered>>
    /\ UNCHANGED <<recVars, chunkVars, trVars, preVars, drvVars, tsVars, guiVars>>

\* the block with a header that does not match the pattern: the comma of its
\* start time is a dot, or its arrow is " -> "
damaged_block(block, index, kind) ==
    LET d == Len(Digits(index))
    IN  IF kind = "dot" THEN [block EXCEPT ![d + 10] = 46]
        ELSE SubSeq(block, 1, d + 14) \o SubSeq(block, d + 16, Len(block))

\* from_srt is given the original-language SRT text with one damaged header
FromSrtDamaged ==
    /\ srt_pc = "rendered"
    /\ \E n \in 1..Len(srt_subtitles) : \E kind \in {"dot", "arrow"} :
          LET blocks == [srt_blocks.original EXCEPT
                            ![n] = damaged_block(@, srt_subtitles[n].index, kind)]
          IN  /\ srt_text' = join(newline, blocks)
              /\ parsed' = from_srt_text(join(newline, blocks), 0).subtitles
    /\ srt_input' = "damaged"
    /\ srt_pc' = "parsed"
    /\ UNCHANGED <<srt_subtitles, srt_blocks, rendered>>
    /\ UNCHANGED <<recVars, chunkVars, trVars, preVars, drvVars, tsVars, guiVars>>

NextSrt == ToSrt \/ FromSrtRendered \/ FromSrtDamaged

\* "a" and "a\nb"
SrtTexts == {<<97>>, <<97, 10, 98>>}

\* None, "", "x" and "x\ny"
SrtTranslations == {<<>>, << <<>> >>, << <<120>> >>, << <<120, 10, 121>> >>}

\* lines 108-119: SubtitleEntry.offset on the text of the two times
SubtitleEntry_offset_text(sub, offset_ms) ==
    [sub EXCEPT
        !.start_time = Timestamp_format(Timestamp_add(
                            Timestamp_parse(match_groups(sub.start_time)), offset_ms)),
        !.end_time   = Timestamp_format(Timestamp_add(
                            Timestamp_parse(match_groups(sub.end_time)), offset_ms))]

\* the offsets process_transcription shifts the entries by: none, and one
\* that takes the second entry past 99:59:59,999
SrtOffsets == {0, 359998000}

\* a transcript as from_srt, Transcription.offset and translate_subtitles
\* leave it
InitSrt ==
    /\ \E n \in 0..MaxSrtEntries : \E offset_ms \in SrtOffsets :
       \E texts \in [1..n -> SrtTexts] : \E translations \in [1..n -> SrtTranslations] :
          srt_subtitles = [k \in 1..n |->
                              SubtitleEntry_offset_text(
                                  [index       |-> k,
                                   start_time  |-> Timestamp_format(1000 * k),
                                   end_time    |-> Timestamp_format(1000 * k + 500),
                                   text        |-> texts[k],
                                   translation |-> translations[k]],
                                  offset_ms)]
    /\ srt_blocks = <<>>
    /\ rendered = <<>>
    /\ srt_text = <<>>
    /\ srt_input = "none"
    /\ parsed = <<>>
    /\ srt_pc = "start"
    /\ IdleRec /\ IdleChunk /\ IdleTr /\ IdlePre /\ IdleDrv /\ IdleTs /\ IdleGui

SpecSrt == InitSrt /\ [][NextSrt]_vars

\* C15: from_srt does not return when the SRT input holds a block whose
\* header line does not match the pattern.
C15_MalformedHeaderFails ==
    srt_input = "damaged" => srt_pc # "parsed"

\* the block of an entry as the original-language rendering writes it
original_block(sub) ==
    Digits(sub.index) \o newline \o sub.start_time \o arrow \o sub.end_time
        \o newline \o sub.text \o newline

\* C17: the block of an entry whose translation is None or "" is, in the
\* translated-only and in the bilingual rendering, the original-language
\* block: its content is exactly the original text.
C17_UntranslatedFallsBack ==
    srt_pc \in {"rendered", "parsed"} =>
        \A k \in 1..Len(srt_subtitles) :
            (srt_subtitles[k].translation \in {<<>>, << <<>> >>})
                => /\ srt_blocks.original[k] = original_block(srt_subtitles[k])
                   /\ srt_blocks.translated[k] = original_block(srt_subtitles[k])
                   /\ srt_blocks.bilingual[k] = original_block(srt_subtitles[k])

\* an entry with translation "" rendered next to a translated entry
C17_Witness ==
    /\ srt_pc = "rendered"
    /\ Len(srt_subtitles) = 2
    /\ srt_subtitles[1].translation = << <<>> >>
    /\ srt_subtitles[2].translation = << <<120>> >>
    /\ srt_blocks.bilingual[2] # srt_blocks.original[2]

\* the text up to its first line break
first_line(text) ==
    LET breaks == {k \in 1..Len(text) : text[k] = 10}
    IN  IF breaks = {} THEN text
        ELSE SubSeq(text, 1, (CHOOSE k \in breaks : \A m \in breaks : k <= m) - 1)

\* the parsed entries, each with the first line of its text only
first_lines(subs) ==
    [k \in 1..Len(subs) |-> [subs[k] EXCEPT !.text = first_line(@)]]

\* C18 as stated: for every transcript, the first content lines of the
\* parsed bilingual rendering give the original-language rendering back.
C18_FirstLinesGiveOriginal ==
    (srt_pc = "parsed" /\ srt_input = "bilingual")
        => to_srt(first_lines(parsed), FALSE, FALSE) = rendered.original

\* every original text is one non-empty line without surrounding white
\* space, every index is non-negative, every timestamp is of the form
\* HH:MM:SS,mmm and no translation holds an empty line
single_line_transcript ==
    \A k \in 1..Len(srt_subtitles) :
        LET sub == srt_subtitles[k]
        IN  /\ sub.text # <<>>
            /\ strip(sub.text) = sub.text
            /\ \A c \in 1..Len(sub.text) : sub.text[c] # 10
            /\ Len(sub.start_time) = 12 /\ timestamp_at(sub.start_time, 1)
            /\ Len(sub.end_time) = 12 /\ timestamp_at(sub.end_time, 1)
            /\ sub.index >= 0
            /\ truthy(sub.translation) =>
                  LET t == sub.translation[1]
                  IN  /\ t[1] # 10 /\ t[Len(t)] # 10
                      /\ \A c \in 1..(Len(t) - 1) : ~(t[c] = 10 /\ t[c + 1] = 10)

\* C18 amended: the same for the transcripts whose original texts are
\* single non-empty lines (indices, timestamps and translations as
\* single_line_transcript states).
C18_SingleLineFirstLinesGiveOriginal ==
    (srt_pc = "parsed" /\ srt_input = "bilingual" /\ single_line_transcript)
        => to_srt(first_lines(parsed), FALSE, FALSE) = rendered.original

\* a bilingual rendering with a two-line translation and an untranslated
\* entry has been parsed
C18_Witness ==
    /\ srt_pc = "parsed"
    /\ srt_input = "bilingual"
    /\ single_line_transcript
    /\ Len(srt_subtitles) = 2
    /\ srt_subtitles[1].translation = << <<120, 10, 121>> >>
    /\ srt_subtitles[2].translation = <<>>
    /\ Len(parsed) = 2
    /\ parsed[1].text # srt_subtitles[1].text

\* C23: from_srt(t.to_srt()) has the entries of t, in order, with the same
\* index, start_time, end_time and text, when every text of t is non-empty
\* and without blank line, whatever times Timestamp has formatted.
C23_ToSrtFromSrtRoundTrip ==
    (/\ srt_pc = "parsed"
     /\ srt_input = "original"
     /\ \A k \in 1..Len(srt_subtitles) :
          /\ srt_subtitles[k].text # <<>>
          /\ \A c \in 1..(Len(srt_subtitles[k].text) - 1) :
                ~(srt_subtitles[k].text[c] = 10 /\ srt_subtitles[k].text[c + 1] = 10))
    => /\ Len(parsed) = Len(srt_subtitles)
       /\ \A k \in 1..Len(parsed) :
            /\ parsed[k].index = srt_subtitles[k].index
            /\ parsed[k].start_time = srt_subtitles[k].start_time
            /\ parsed[k].end_time = srt_subtitles[k].end_time
            /\ parsed[k].text = srt_subtitles[k].text

(***************************************************************************)
(* gui.py: TranscriptionGUI.  The Tk main thread runs one event handler at *)
(* a time; the worker thread started by _start_transcription runs          *)
(* _run_transcription and is interleaved with the handlers file by file.   *)
(* The widgets that only display (listbox, status, progress) are left out. *)
(***************************************************************************)
\* the paths the user can hand over: supported says whether the suffix is in
\* SUPPORTED_INPUT_FORMATS, exists is path.exists()
GuiPaths ==
    {[name |-> "a.mp4",     supported |-> TRUE,  exists |-> TRUE],
     [name |-> "b.mp4",     supported |-> TRUE,  exists |-> TRUE],
     [name |-> "c.mkv",     supported |-> TRUE,  exists |-> TRUE],
     [name |-> "notes.txt", supported |-> FALSE, exists |-> TRUE],
     [name |-> "gone.mp4",  supported |-> TRUE,  exists |-> FALSE]}

\* the lists of paths one drop or one file dialog delivers
PathLists ==
    {l \in UNION {[1..n -> GuiPaths] : n \in 1..MaxDropped} :
        \A a \in 1..Len(l) : \A b \in 1..Len(l) : a # b => l[a] # l[b]}

\* lines 185-204: _add_files, the value of self.files after it
RECURSIVE add_files(_, _)
add_files(lst, file_paths) ==
    IF Len(file_paths) = 0 THEN lst
    ELSE LET path == Head(file_paths)
             seen == \E k \in 1..Len(lst) : lst[k] = path
         IN  add_files(IF path.supported /\ ~seen /\ path.exists
                       THEN Append(lst, path) ELSE lst,
                       Tail(file_paths))

\* lines 208-212: the list without the selected indices
without_indices(lst, selected_indices) ==
    LET keep == {k \in 1..Len(lst) : k \notin selected_indices}
    IN  Ascending(keep)

\* lines 145-162: <<Drop>> on the drop frame or the root window; the drop
\* targets are registered once (lines 133-143) and never unregistered
on_drop ==
    /\ \E file_paths \in PathLists : files' = add_files(files, file_paths)
    /\ UNCHANGED <<is_processing, ui_state, message_queue, thread_pc, file_iter,
                   total_files, threads, files_at_start, processed>>
    /\ UNCHANGED <<recVars, chunkVars, trVars, preVars, drvVars, tsVars, srtVars>>

\* lines 172-183: the browse button, which Tk invokes only while it is enabled
browse_files ==
    /\ ui_state = "normal"
    /\ \E file_paths \in PathLists : files' = add_files(files, file_paths)
    /\ UNCHANGED <<is_processing, ui_state, message_queue, thread_pc, file_iter,
                   total_files, threads, files_at_start, processed>>
    /\ UNCHANGED <<recVars, chunkVars, trVars, preVars, drvVars, tsVars, srtVars>>

\* lines 206-214: the remove button with a non-empty selection
remove_selected ==
    /\ ui_state = "normal"
    /\ \E selected_indices \in (SUBSET (1..Len(files))) \ {{}} :
          files' = [k \in 1..(Len(files) - Cardinality(selected_indices)) |->
                       files[without_indices(files, selected_indices)[k]]]
    /\ UNCHANGED <<is_processing, ui_state, message_queue, thread_pc, file_iter,
                   total_files, threads, files_at_start, processed>>
    /\ UNCHANGED <<recVars, chunkVars, trVars, preVars, drvVars, tsVars, srtVars>>

\* lines 216-221: the clear button
clear_all ==
    /\ ui_state = "normal"
    /\ files # <<>>
    /\ files' = <<>>
    /\ UNCHANGED <<is_processing, ui_state, message_queue, thread_pc, file_iter,
                   total_files, threads, files_at_start, processed>>
    /\ UNCHANGED <<recVars, chunkVars, trVars, preVars, drvVars, tsVars, srtVars>>

\* lines 223-238: the start button with files selected and no run in
\* progress; the early returns of lines 225-231 change nothing
start_transcription ==
    /\ ui_state = "normal"
    /\ files # <<>>
    /\ ~is_processing
    /\ is_processing' = TRUE
    /\ ui_state' = "disabled"
    /\ threads' = threads + 1
    /\ thread_pc' = "started"
    /\ files_at_start' = files
    /\ processed' = <<>>
    /\ UNCHANGED <<files, message_queue, file_iter, total_files>>
    /\ UNCHANGED <<recVars, chunkVars, trVars, preVars, drvVars, tsVars, srtVars>>

\* lines 240-244: the worker thread enters _run_transcription
run_transcription_begin ==
    /\ thread_pc = "started"
    /\ total_files' = Len(files)
    /\ file_iter' = 0
    /\ thread_pc' = "iterating"
    /\ UNCHANGED <<files, is_processing, ui_state, message_queue, threads,
                   files_at_start, processed>>
    /\ UNCHANGED <<recVars, chunkVars, trVars, preVars, drvVars, tsVars, srtVars>>

\* lines 246-273: one iteration of "for i, file_path in enumerate(self.files)";
\* the list iterator takes the next element while its index is below the
\* current length of the list.  transcribe_video returns or raises.
run_transcription_file ==
    /\ thread_pc = "iterating"
    /\ file_iter < Len(files)
    /\ processed' = Append(processed, files[file_iter + 1])
    /\ file_iter' = file_iter + 1
    /\ \E raised \in BOOLEAN :
          message_queue' = message_queue \o
              (IF raised THEN <<"status", "progress", "status", "error">>
               ELSE <<"status", "progress", "status">>)
    /\ UNCHANGED <<files, is_processing, ui_state, thread_pc, total_files, threads,
                   files_at_start>>
    /\ UNCHANGED <<recVars, chunkVars, trVars, preVars, drvVars, tsVars, srtVars>>

\* lines 276-278: the loop is over, the thread returns
run_transcription_end ==
    /\ thread_pc = "iterating"
    /\ file_iter >= Len(files)
    /\ message_queue' = message_queue \o <<"progress", "status", "done">>
    /\ thread_pc' = "finished"
    /\ threads' = threads - 1
    /\ UNCHANGED <<files, is_processing, ui_state, file_iter, total_files,
                   files_at_start, processed>>
    /\ UNCHANGED <<recVars, chunkVars, trVars, preVars, drvVars, tsVars, srtVars>>

\* lines 288-311 and 313-319: the queue is emptied; "done" ends the run and
\* enables the buttons
poll_messages ==
    /\ message_queue # <<>>
    /\ message_queue' = <<>>
    /\ IF \E k \in 1..Len(message_queue) : message_queue[k] = "done"
       THEN is_processing' = FALSE /\ ui_state' = "normal"
       ELSE UNCHANGED <<is_processing, ui_state>>
    /\ UNCHANGED <<files, thread_pc, file_iter, total_files, threads,
                   files_at_start, processed>>
    /\ UNCHANGED <<recVars, chunkVars, trVars, preVars, drvVars, tsVars, srtVars>>

NextGui ==
    \/ browse_files \/ on_drop \/ clear_all \/ remove_selected
    \/ start_transcription
    \/ run_transcription_begin \/ run_transcription_file \/ run_transcription_end
    \/ poll_messages

\* lines 20-32: TranscriptionGUI()
InitGui ==
    /\ files = <<>>
    /\ is_processing = FALSE
    /\ ui_state = "normal"
    /\ message_queue = <<>>
    /\ thread_pc = "none"
    /\ file_iter = 0
    /\ total_files = 0
    /\ threads = 0
    /\ files_at_start = <<>>
    /\ processed = <<>>
    /\ IdleRec /\ IdleChunk /\ IdleTr /\ IdlePre /\ IdleDrv /\ IdleTs /\ IdleSrt

SpecGui == InitGui /\ [][NextGui]_vars

\* C24: while a run is in progress and the worker iterates self.files, the
\* list is the one of the start of the run; there is never a second worker
\* thread; the files the worker has iterated are those of the start.
C24_FilesFrozenWhileProcessing ==
    /\ (is_processing /\ thread_pc = "iterating") => files = files_at_start
    /\ threads <= 1
    /\ thread_pc = "finished" => processed = files_at_start

====
